---- MODULE Spec2Model ----
(***************************************************************************)
(* A model of the isorter Sublime Text plugin: the settings resolver       *)
(* (isort_lib/settings.py), the command that pipes the buffer through the  *)
(* formatter process (isort_cmd.py) and the search-path patch              *)
(* (isort_lib/utils.py).                                                   *)
(***************************************************************************)
EXTENDS Integers, Sequences, FiniteSets, TLC

VARIABLES
    view_settings,     \* the buffer's settings object: flat keys and the nested mapping
    global_settings,   \* the persisted settings store (sublime.load_settings)
    configured,        \* the option names the host's settings have provided so far
    current_settings,  \* IsortSettings.current_settings: the snapshot
    settings_loaded,   \* IsortSettings._settings is not None
    logger_level,      \* level of the shared logger
    buffer,            \* the view's text, a sequence of lines
    status,            \* the view's "isort" status entry (empty: erased)
    proc,              \* IsortPythonCommand.proc: a process id, or None
    killed,            \* IsortPythonCommand.killed
    proc_state,        \* every process the command spawned: running, terminating, dead
    sys_path,          \* sys.path
    environ,           \* os.environ
    dirs,              \* the directories of the file system
    event              \* the operation that ran last, with its inputs and outcome

sources == <<view_settings, global_settings, configured>>
settings_vars == <<current_settings, settings_loaded, logger_level>>
cmd_vars == <<buffer, status, proc, killed, proc_state>>
path_vars == <<sys_path, environ, dirs>>
vars == <<view_settings, global_settings, configured, current_settings,
          settings_loaded, logger_level, buffer, status, proc, killed, proc_state,
          sys_path, environ, dirs, event>>

----------------------------------------------------------------------------
(* Python values: a str is a sequence of tokens (a token is a literal piece *)
(* or a ${placeholder}), a text is a sequence of lines.                     *)

Str(toks) == [str |-> toks]
Num(n) == [num |-> n]
Bool(b) == [bool |-> b]
NoneV == [none |-> TRUE]
ListV == [lst |-> <<>>]
Text(lines) == [text |-> lines]
IsStr(v) == DOMAIN v = {"str"}
IsInt(v) == DOMAIN v = {"num"} \/ DOMAIN v = {"bool"}
IntOf(v) == IF DOMAIN v = {"num"} THEN v.num ELSE IF v.bool THEN 1 ELSE 0

EmptyMap == [x \in {} |-> NoneV]
Get(map, key, default) == IF key \in DOMAIN map THEN map[key] ELSE default
Put(map, key, val) == [x \in DOMAIN map \cup {key} |-> IF x = key THEN val ELSE map[x]]
Del(map, key) == [x \in DOMAIN map \ {key} |-> map[x]]

----------------------------------------------------------------------------
(* isort_lib/settings.py *)

NAME == "isort"
UNSET == Str(<<"__UNSET_SETTINGS_KEY__">>)

default_settings ==
    [verbose |-> Bool(FALSE), timeout |-> Num(1), path |-> NoneV,
     log_level |-> Str(<<"INFO">>), on_save |-> Bool(FALSE),
     encoding |-> Str(<<"utf-8">>)]

Options == DOMAIN default_settings

global_key(key) == <<"isort", "_", key>>
flat_key(key) == <<NAME, ".", key>>
nested_key == <<NAME>>

(* utils.expand: the window's variables, overridden by the process          *)
(* environment, substituted for the placeholders of a string.               *)
WindowVars == [project_path |-> "/proj", HOME |-> "/window-home"]
merge(a, b) == [x \in DOMAIN a \cup DOMAIN b |-> IF x \in DOMAIN b THEN b[x] ELSE a[x]]
Placeholder == [x \in {"${project_path}", "${HOME}", "${missing}"} |->
                  CASE x = "${project_path}" -> "project_path"
                    [] x = "${HOME}" -> "HOME"
                    [] x = "${missing}" -> "missing"]

RECURSIVE expand_variables(_, _)
expand_variables(toks, variables) ==
    IF toks = <<>> THEN <<>>
    ELSE LET t == Head(toks)
             piece == IF t \in DOMAIN Placeholder
                      THEN IF Placeholder[t] \in DOMAIN variables
                           THEN <<variables[Placeholder[t]]>>
                           ELSE <<>>
                      ELSE <<t>>
         IN  piece \o expand_variables(Tail(toks), variables)

expand(value) ==
    IF IsStr(value)
    THEN Str(expand_variables(value.str, merge(WindowVars, environ)))
    ELSE value

\* resolve with the nested mapping read before the flat key
resolve_nested_first(key, cur) ==
    LET flat == view_settings
        nested == Get(view_settings, <<NAME>>, EmptyMap)
        v1 == Get(flat, <<NAME, ".", key>>, UNSET)
        v2 == Get(nested, key, UNSET)
        v3 == Get(global_settings, <<"isort", "_", key>>, UNSET)
    IN  IF v2 # UNSET THEN expand(v2)
        ELSE IF v1 # UNSET THEN expand(v1)
        ELSE IF v3 # UNSET THEN expand(v3)
        ELSE cur[key]

(* One iteration of update_settings' loop: the value current_settings[key]  *)
(* holds after it.                                                          *)
resolve(key, cur) ==
    LET flat == view_settings
        nested == Get(view_settings, nested_key, EmptyMap)
        v1 == Get(flat, flat_key(key), UNSET)
        v2 == Get(nested, key, UNSET)
        v3 == Get(global_settings, global_key(key), UNSET)
    IN  IF v1 # UNSET THEN expand(v1)
        ELSE IF v2 # UNSET THEN expand(v2)
        ELSE IF v3 # UNSET THEN expand(v3)
        ELSE cur[key]

(* logging: the names Logger.setLevel accepts, and the levels used here.    *)
WARNING == 30
ERROR == 40
RootLevel == 30
nameToLevel ==
    [CRITICAL |-> 50, FATAL |-> 50, ERROR |-> 40, WARN |-> 30, WARNING |-> 30,
     INFO |-> 20, DEBUG |-> 10, NOTSET |-> 0]
LEVEL_NAMES == {"DEBUG", "INFO", "WARNING", "ERROR", "CRITICAL"}

\* Logger.setLevel(level): "ok" with the level set, or the exception raised
checkLevel(level) ==
    IF IsInt(level) THEN [exc |-> "none", level |-> IntOf(level)]
    ELSE IF IsStr(level)
    THEN IF Len(level.str) = 1 /\ level.str[1] \in DOMAIN nameToLevel
         THEN [exc |-> "none", level |-> nameToLevel[level.str[1]]]
         ELSE [exc |-> "ValueError", level |-> 0]
    ELSE [exc |-> "TypeError", level |-> 0]

getEffectiveLevel(lvl) == IF lvl # 0 THEN lvl ELSE RootLevel

(* set_log_level: the logger's level afterwards, the error records emitted, *)
(* and the exception that escapes.                                          *)
set_log_level(snapshot, lvl) ==
    LET level == snapshot["log_level"]
        chk == checkLevel(level)
    IN  IF level = NoneV THEN [level |-> lvl, errors |-> 0, raised |-> "none"]
        ELSE IF chk.exc = "none"
        THEN [level |-> chk.level, errors |-> 0, raised |-> "none"]
        ELSE IF chk.exc = "ValueError"
        THEN [level |-> WARNING,
              errors |-> (IF ERROR >= getEffectiveLevel(lvl) THEN 1 ELSE 0) + 1,
              raised |-> "none"]
        ELSE [level |-> lvl, errors |-> 0, raised |-> "TypeError"]

update_settings_snapshot == [k \in Options |-> resolve(k, current_settings)]


\* IsortSettings.load(view): _load, then update_settings
load ==
    LET snap == update_settings_snapshot
        res == set_log_level(snap, logger_level)
    IN  /\ settings_loaded' = TRUE
        /\ current_settings' = snap
        /\ logger_level' = res.level
        /\ event' = [op |-> "load", log_errors |-> res.errors, raised |-> res.raised]
        /\ UNCHANGED <<sources, cmd_vars, path_vars>>

\* update_settings as the on_change callback _load registers on the global settings
on_change ==
    LET snap == update_settings_snapshot
        res == set_log_level(snap, logger_level)
    IN  /\ settings_loaded
        /\ current_settings' = snap
        /\ logger_level' = res.level
        /\ event' = [op |-> "update_settings", log_errors |-> res.errors,
                     raised |-> res.raised]
        /\ UNCHANGED <<sources, settings_loaded, cmd_vars, path_vars>>

----------------------------------------------------------------------------
(* The host's settings storage, which the plugin only reads: the user, a    *)
(* project file or another plugin sets and erases entries.                  *)

MaxOptions == 2

FlatPool ==
    { <<"timeout", Num(2)>>, <<"verbose", Bool(TRUE)>>,
      <<"encoding", Str(<<"latin-1">>)>>,
      <<"path", Str(<<"${project_path}", "/bin/isort">>)>>, <<"path", UNSET>>,
      <<"log_level", Str(<<"TRACE">>)>> }
NestedPool ==
    { <<"timeout", Num(3)>>, <<"verbose", Bool(FALSE)>>, <<"on_save", Bool(FALSE)>>,
      <<"path", Str(<<"${HOME}", "/isort">>)>>,
      <<"log_level", Str(<<"FATAL">>)>>, <<"log_level", ListV>> }
GlobalPool ==
    { <<"timeout", Num(4)>>, <<"on_save", Bool(TRUE)>>,
      <<"encoding", Str(<<"utf-16">>)>>, <<"path", Str(<<"${missing}", "isort">>)>>,
      <<"log_level", Str(<<"CRITICAL">>)>> }
\* the entries the host configures while the command runs
CmdFlatPool == { <<"timeout", Num(2)>>, <<"timeout", Str(<<"2">>)>> }
CmdNestedPool == { <<"timeout", Num(3)>> }
CmdGlobalPool == { <<"log_level", ListV>> }

nested_of(vs) == Get(vs, nested_key, EmptyMap)
MayConfigure(k) == Cardinality(configured \cup {k}) <= MaxOptions
Edited == [op |-> "edit"]

SetFlat(pool) ==
    \E kv \in pool :
        /\ Get(view_settings, flat_key(kv[1]), NoneV) # kv[2]
        /\ MayConfigure(kv[1])
        /\ configured' = configured \cup {kv[1]}
        /\ view_settings' = Put(view_settings, flat_key(kv[1]), kv[2])
        /\ event' = Edited
        /\ UNCHANGED <<global_settings, settings_vars, cmd_vars, path_vars>>

EraseFlat ==
    \E k \in Options :
        /\ flat_key(k) \in DOMAIN view_settings
        /\ view_settings' = Del(view_settings, flat_key(k))
        /\ event' = Edited
        /\ UNCHANGED <<global_settings, configured, settings_vars, cmd_vars, path_vars>>

SetNested(pool) ==
    \E kv \in pool :
        /\ Get(nested_of(view_settings), kv[1], NoneV) # kv[2]
        /\ MayConfigure(kv[1])
        /\ configured' = configured \cup {kv[1]}
        /\ view_settings' = Put(view_settings, nested_key,
                                Put(nested_of(view_settings), kv[1], kv[2]))
        /\ event' = Edited
        /\ UNCHANGED <<global_settings, settings_vars, cmd_vars, path_vars>>

EraseNested ==
    \E k \in DOMAIN nested_of(view_settings) :
        /\ view_settings' =
              IF DOMAIN nested_of(view_settings) = {k}
              THEN Del(view_settings, nested_key)
              ELSE Put(view_settings, nested_key, Del(nested_of(view_settings), k))
        /\ event' = Edited
        /\ UNCHANGED <<global_settings, configured, settings_vars, cmd_vars, path_vars>>

SetGlobal(pool) ==
    \E kv \in pool :
        /\ Get(global_settings, global_key(kv[1]), NoneV) # kv[2]
        /\ MayConfigure(kv[1])
        /\ configured' = configured \cup {kv[1]}
        /\ global_settings' = Put(global_settings, global_key(kv[1]), kv[2])
        /\ event' = Edited
        /\ UNCHANGED <<view_settings, settings_vars, cmd_vars, path_vars>>

EraseGlobal ==
    \E k \in Options :
        /\ global_key(k) \in DOMAIN global_settings
        /\ global_settings' = Del(global_settings, global_key(k))
        /\ event' = Edited
        /\ UNCHANGED <<view_settings, configured, settings_vars, cmd_vars, path_vars>>

----------------------------------------------------------------------------
(* isort_cmd.py: IsortPythonCommand, and utils.kill_proc                    *)

MaxSpawns == 3
MaxDuration == 2
SIGTERM == 15

None == 0
Pids == 1 .. MaxSpawns
ReturnCodes == {0, 1}
Unsorted == <<"import b", "import a">>
Sorted == <<"import a", "import b">>
BufferTexts == {Unsorted, Sorted}
Outputs == {Unsorted, Sorted, <<>>}

alive(ps) == {p \in DOMAIN ps : ps[p] \in {"running", "terminating"}}
unspawned(ps) == {p \in DOMAIN ps : ps[p] = "unspawned"}

\* Popen.terminate: the signal is sent, the process dies of it later
terminate(ps, p) == IF ps[p] = "running" THEN [ps EXCEPT ![p] = "terminating"] ELSE ps

\* kill_proc that only sends the signal
kill_proc_without_wait(ps, p) == terminate(ps, p)

\* utils.kill_proc: terminate, wait 1.5 s, kill if the wait timed out
kill_proc(ps, p) ==
    LET sent == terminate(ps, p)
    IN  IF sent[p] = "terminating" THEN [sent EXCEPT ![p] = "dead"] ELSE sent

\* Popen.returncode after kill_proc: set by a wait that returned, still None
\* when the wait timed out and kill() was sent
returncode_after_kill(in_grace) == IF in_grace THEN Num(0 - SIGTERM) ELSE NoneV

\* IsortPythonCommand.kill
kill_sets_killed(p, k) == IF p # None THEN TRUE ELSE k
kill_terminates(ps, p) == IF p # None THEN terminate(ps, p) ELSE ps

\* Popen.communicate(input=cts, timeout=timeout) on a process that needs d
\* units of time: how the call ends
communicate(timeout, d) ==
    IF timeout = NoneV THEN "returned"
    ELSE IF ~IsInt(timeout) THEN "TypeError"
    ELSE IF d > IntOf(timeout) THEN "TimeoutExpired"
    ELSE "returned"

falsy(v) == v = NoneV \/ v = Num(0)
DecimalText(n) ==
    <<"0", "1", "2", "3", "4", "5", "6", "7", "8", "9", "10", "11", "12">>[n + 1]
Erased == <<>>

\* status_for with the first test not looking at timed_out
status_for_ignoring_timeout(old, returncode, timed_out, stderr) ==
    IF falsy(returncode) THEN <<"isort(sorted)">>
    ELSE IF timed_out THEN <<"isort(timeout)">>
    ELSE IF stderr # NoneV THEN <<"isort(err, ", DecimalText(returncode.num), ")">>
    ELSE old

\* do_isort, lines 160-168: the status shown
status_for(old, returncode, timed_out, stderr) ==
    IF falsy(returncode) /\ ~timed_out THEN <<"isort(sorted)">>
    ELSE IF timed_out THEN <<"isort(timeout)">>
    ELSE IF stderr # NoneV THEN <<"isort(err, ", DecimalText(returncode.num), ")">>
    ELSE old

\* should_replace without the test of check
should_replace_in_check_mode(stdout, cts, check) == stdout # NoneV /\ stdout # cts

\* do_isort, line 169
should_replace(stdout, cts, check) == stdout # NoneV /\ stdout # cts /\ ~check

\* a region that stops one line short of the end
region_short_by_one(text) == [a |-> 0, b |-> IF Len(text) > 0 THEN Len(text) - 1 ELSE 0]

\* the region do_isort replaces, and View.replace on it
whole_region(text) == [a |-> 0, b |-> Len(text)]
replace(text, region, new) ==
    SubSeq(text, 1, region.a) \o new \o SubSeq(text, region.b + 1, Len(text))

\* do_isort on the process pid just spawned
do_isort(snap, ps, pid, check, d, rc, out, in_grace) ==
    LET timeout == snap["timeout"]
        sel == whole_region(buffer)
        cts == Text(buffer)
        how == communicate(timeout, d)
        timed_out == how = "TimeoutExpired"
        stdout == IF timed_out THEN NoneV ELSE Text(out)
        stderr == IF timed_out THEN NoneV ELSE Text(<<>>)
        ps1 == IF timed_out THEN kill_proc(ps, pid) ELSE [ps EXCEPT ![pid] = "dead"]
        returncode == IF timed_out THEN returncode_after_kill(in_grace) ELSE Num(rc)
        replaces == should_replace(stdout, cts, check)
    IN  IF how = "TypeError"
        THEN [buffer |-> buffer, status |-> status, proc |-> pid, proc_state |-> ps,
              result |-> "communicate_raised", stdout |-> NoneV, returncode |-> NoneV,
              replaces |-> 0]
        ELSE [buffer |-> IF replaces THEN replace(buffer, sel, stdout.text) ELSE buffer,
              status |-> status_for(status, returncode, timed_out, stderr),
              proc |-> None, proc_state |-> ps1,
              result |-> IF timed_out THEN "timeout" ELSE "exit",
              stdout |-> stdout, returncode |-> returncode,
              replaces |-> IF replaces THEN 1 ELSE 0]

Outcome(b, s, p, k, ps, ev) ==
    /\ buffer' = b
    /\ status' = s
    /\ proc' = p
    /\ killed' = k
    /\ proc_state' = ps
    /\ event' = ev

\* IsortPythonCommand.run(edit, check, kill), do_isort included
run ==
    LET snap == update_settings_snapshot
        lg == set_log_level(snap, logger_level)
    IN  /\ settings_loaded' = TRUE
        /\ current_settings' = snap
        /\ logger_level' = lg.level
        /\ UNCHANGED <<sources, path_vars>>
        /\ \E check \in BOOLEAN, kill \in BOOLEAN :
             LET ev == [op |-> "run", check |-> check, kill |-> kill,
                        result |-> "", before |-> buffer, prior |-> proc,
                        prior_alive |-> proc \in alive(proc_state),
                        spawned |-> Pids \ unspawned(proc_state),
                        pid |-> None, alive_at_spawn |-> {}, stdout |-> NoneV,
                        returncode |-> NoneV, replaces |-> 0]
             IN
             IF lg.raised # "none"
             THEN Outcome(buffer, status, proc, killed, proc_state,
                          [ev EXCEPT !.result = "load_raised"])
             ELSE IF kill
             THEN Outcome(buffer, status, proc, kill_sets_killed(proc, killed),
                          kill_terminates(proc_state, proc),
                          [ev EXCEPT !.result = "kill"])
             ELSE
             LET ps1 == IF proc # None THEN kill_proc(proc_state, proc) ELSE proc_state
             IN  \E has_file \in BOOLEAN :
                 IF ~has_file
                 THEN Outcome(buffer, status, None, killed, ps1,
                              [ev EXCEPT !.result = "no_file"])
                 ELSE \E exe_found \in BOOLEAN :
                 IF ~exe_found
                 THEN Outcome(buffer, status, None, FALSE, ps1,
                              [ev EXCEPT !.result = "spawn_raised"])
                 ELSE
                 /\ unspawned(ps1) # {}
                 /\ LET pid == CHOOSE p \in unspawned(ps1) :
                                  \A q \in unspawned(ps1) : p <= q
                        ps2 == [ps1 EXCEPT ![pid] = "running"]
                        Apply(r) ==
                            Outcome(r.buffer, r.status, r.proc, FALSE, r.proc_state,
                                    [ev EXCEPT !.result = r.result, !.pid = pid,
                                               !.alive_at_spawn = alive(ps1),
                                               !.stdout = r.stdout,
                                               !.returncode = r.returncode,
                                               !.replaces = r.replaces])
                    IN  \E d \in 1 .. MaxDuration :
                        IF communicate(snap["timeout"], d) = "TimeoutExpired"
                        THEN \E in_grace \in BOOLEAN :
                               Apply(do_isort(snap, ps2, pid, check, d, 0, <<>>, in_grace))
                        ELSE \E rc \in ReturnCodes, out \in Outputs :
                               Apply(do_isort(snap, ps2, pid, check, d, rc, out, TRUE))

\* IsortPythonCommand.clear_status, which set_status schedules
clear_status ==
    /\ status # Erased
    /\ status' = Erased
    /\ event' = [op |-> "clear_status"]
    /\ UNCHANGED <<sources, settings_vars, buffer, proc, killed, proc_state, path_vars>>

\* the user types in the view
user_edit ==
    /\ \E t \in BufferTexts : t # buffer /\ buffer' = t
    /\ event' = Edited
    /\ UNCHANGED <<sources, settings_vars, status, proc, killed, proc_state, path_vars>>

\* a process still alive ends: by itself, or of the signal terminate sent
proc_ends ==
    /\ \E p \in alive(proc_state) : proc_state' = [proc_state EXCEPT ![p] = "dead"]
    /\ event' = [op |-> "proc_ends"]
    /\ UNCHANGED <<sources, settings_vars, buffer, status, proc, killed, path_vars>>

----------------------------------------------------------------------------
(* isort_lib/utils.py: find_package and patch_path. A path is the sequence  *)
(* of its components.                                                       *)

PythonMinors == {8, 9, 10}
\* the names a lib directory may list: whether name.startswith("python3"),
\* and name.split(".")[-1]
LibNames ==
    [n \in {"python3.8", "python3.9", "python3.10", "python3", "python2.7"} |->
        CASE n = "python3.8" -> [python3 |-> TRUE, last |-> "8"]
          [] n = "python3.9" -> [python3 |-> TRUE, last |-> "9"]
          [] n = "python3.10" -> [python3 |-> TRUE, last |-> "10"]
          [] n = "python3" -> [python3 |-> TRUE, last |-> "python3"]
          [] n = "python2.7" -> [python3 |-> FALSE, last |-> "7"]]
\* "python3.{0}".format(ver)
python3_dir(ver) ==
    CHOOSE n \in DOMAIN LibNames :
        LibNames[n].python3 /\ LibNames[n].last = DecimalText(ver)
\* int(text): the number, or -1 for a ValueError
parse_int(text) ==
    IF \E n \in 0 .. 12 : DecimalText(n) = text
    THEN CHOOSE n \in 0 .. 12 : DecimalText(n) = text
    ELSE 0 - 1
\* the components that hold "isort" as a substring
HoldsIsort == {"isort", "isorter"}
contains_isort(path) == \E i \in 1 .. Len(path) : path[i] \in HoldsIsort

NoPath == <<>>
isdir(path) == path \in dirs
listdir(path) ==
    { d[Len(d)] : d \in { x \in dirs : Len(x) = Len(path) + 1
                                        /\ SubSeq(x, 1, Len(path)) = path } }
Max(S) == CHOOSE x \in S : \A y \in S : y <= x

find_package(root) ==
    LET lib == root \o <<"lib">>
        versions == { parse_int(LibNames[name].last) :
                        name \in { n \in listdir(lib) :
                                     /\ LibNames[n].python3
                                     /\ parse_int(LibNames[n].last) >= 0 } }
        ver == Max(versions)
        version_path == lib \o <<python3_dir(ver)>>
        pkg_path == version_path \o <<"site-packages", "isort">>
    IN  IF ~isdir(lib) THEN NoPath
        ELSE IF versions = {} THEN NoPath
        ELSE IF ~isdir(version_path) THEN NoPath
        ELSE IF ~isdir(pkg_path) THEN NoPath
        ELSE pkg_path

\* list.insert(index, item)
list_insert(list, index, item) ==
    LET n == Len(list)
        i == IF index < 0 THEN (IF index + n < 0 THEN 0 ELSE index + n)
             ELSE IF index > n THEN n ELSE index
    IN  SubSeq(list, 1, i) \o <<item>> \o SubSeq(list, i + 1, n)

env_path(name) == IF name \in DOMAIN environ THEN <<environ[name]>> ELSE NoPath

\* the roots patch_path searches, in order
patch_roots ==
    LET pipx_home == IF "PIPX_HOME" \in DOMAIN environ THEN env_path("PIPX_HOME")
                     ELSE IF "HOME" \in DOMAIN environ
                     THEN env_path("HOME") \o <<".local", "pipx">>
                     ELSE NoPath
        pipx_isort == pipx_home \o <<"venvs", "isort">>
    IN  <<env_path("VIRTUAL_ENV"), env_path("PYENV_VIRTUAL_ENV")>>
        \o (IF pipx_home # NoPath /\ isdir(pipx_isort) THEN <<pipx_isort>> ELSE <<>>)

\* the roots whose package find_package finds
found_roots ==
    LET roots == patch_roots
    IN  { i \in 1 .. Len(roots) :
            roots[i] # NoPath /\ isdir(roots[i]) /\ find_package(roots[i]) # NoPath }

patch_path ==
    LET roots == patch_roots
        found == found_roots
        first == CHOOSE i \in found : \A j \in found : i <= j
    IN  /\ IF \E i \in 1 .. Len(sys_path) : contains_isort(sys_path[i])
           THEN /\ sys_path' = sys_path
                /\ event' = [op |-> "patch_path", before |-> sys_path, returned |-> TRUE]
           ELSE IF found # {}
           THEN /\ sys_path' = list_insert(sys_path, 0 - 1, find_package(roots[first]))
                /\ event' = [op |-> "patch_path", before |-> sys_path, returned |-> TRUE]
           ELSE /\ sys_path' = sys_path
                /\ event' = [op |-> "patch_path", before |-> sys_path, returned |-> FALSE]
        /\ UNCHANGED <<sources, settings_vars, cmd_vars, environ, dirs>>

(* The process environment and the file system patch_path may find.         *)
MaxPathLen == 2
StdLib == <<"/usr", "lib", "python3.8">>
PathEntries == { StdLib, <<"/opt", "Packages">>, <<"/opt", "Packages", "isorter">> }
SysPaths ==
    { p \in UNION { [1 .. n -> PathEntries] : n \in 1 .. MaxPathLen } :
        /\ p[1] = StdLib
        /\ \A i, j \in 1 .. Len(p) : i # j => p[i] # p[j] }
Installs == [PythonMinors -> {"absent", "dir", "package"}]
RootTree(root, base, install) ==
    {root, root \o <<"lib">>} \cup base
    \cup { root \o <<"lib", python3_dir(v)>> :
             v \in {m \in PythonMinors : install[m] # "absent"} }
    \cup UNION { { root \o <<"lib", python3_dir(v), "site-packages">>,
                   root \o <<"lib", python3_dir(v), "site-packages", "isort">> } :
                 v \in {m \in PythonMinors : install[m] = "package"} }
PipxRoot == <<"/home/user", ".local", "pipx", "venvs", "isort">>
PipxSite == PipxRoot \o <<"lib", "python3.9", "site-packages">>
PipxTrees ==
    { {}, {PipxRoot},
      {PipxRoot, PipxRoot \o <<"lib">>, PipxRoot \o <<"lib", "python3.9">>,
       PipxSite, PipxSite \o <<"isort">>} }
Environs ==
    { [HOME |-> "/home/user"],
      [HOME |-> "/home/user", VIRTUAL_ENV |-> "/venv"],
      [HOME |-> "/home/user", PYENV_VIRTUAL_ENV |-> "/pyenv"],
      [HOME |-> "/home/user", VIRTUAL_ENV |-> "/venv", PYENV_VIRTUAL_ENV |-> "/pyenv"] }

----------------------------------------------------------------------------

INFO == 20

Init ==
    /\ view_settings = EmptyMap
    /\ global_settings = EmptyMap
    /\ configured = {}
    /\ current_settings = default_settings
    /\ settings_loaded = FALSE
    /\ logger_level = INFO
    /\ buffer = Unsorted
    /\ status = Erased
    /\ proc = None
    /\ killed = FALSE
    /\ proc_state = [p \in Pids |-> "unspawned"]
    /\ sys_path = <<>>
    /\ environ = [HOME |-> "/home/user"]
    /\ dirs = {}
    /\ event = [op |-> "none"]

Next ==
    \/ run
    \/ clear_status
    \/ user_edit
    \/ proc_ends
    \/ SetFlat(CmdFlatPool) \/ EraseFlat
    \/ SetNested(CmdNestedPool) \/ EraseNested
    \/ SetGlobal(CmdGlobalPool) \/ EraseGlobal

Spec == Init /\ [][Next]_vars

NextSettings ==
    \/ SetFlat(FlatPool) \/ EraseFlat
    \/ SetNested(NestedPool) \/ EraseNested
    \/ SetGlobal(GlobalPool) \/ EraseGlobal
    \/ load
    \/ on_change

SpecSettings == Init /\ [][NextSettings]_vars

InitPath ==
    /\ view_settings = EmptyMap
    /\ global_settings = EmptyMap
    /\ configured = {}
    /\ current_settings = default_settings
    /\ settings_loaded = FALSE
    /\ logger_level = INFO
    /\ buffer = Unsorted
    /\ status = Erased
    /\ proc = None
    /\ killed = FALSE
    /\ proc_state = [p \in Pids |-> "unspawned"]
    /\ sys_path \in SysPaths
    /\ environ \in Environs
    /\ \E venv \in Installs, pyenv \in Installs, pipx \in PipxTrees :
          dirs = RootTree(<<"/venv">>, {}, venv)
                 \cup RootTree(<<"/pyenv">>, {<<"/pyenv", "lib", "python3">>,
                                          <<"/pyenv", "lib", "python2.7">>}, pyenv)
                 \cup pipx
    /\ event = [op |-> "none"]

NextPath == patch_path

SpecPath == InitPath /\ [][NextPath]_vars

----------------------------------------------------------------------------
(* The claims. A claim about a run is stated of the state the run leaves:   *)
(* event holds the run's inputs and what its process did.                   *)

RunEnded(result) == event.op = "run" /\ event.result = result
SettingsRead == event.op \in {"load", "update_settings"}
flat_has(k) == flat_key(k) \in DOMAIN view_settings
nested_has(k) == k \in DOMAIN nested_of(view_settings)
global_has(k) == global_key(k) \in DOMAIN global_settings

\* C1: a run whose process exits with a non-zero code, without a timeout,
\* leaves the buffer as it was, whatever the process wrote and in either mode.
C1_ErrorKeepsBuffer ==
    (RunEnded("exit") /\ event.returncode # Num(0))
        => (buffer = event.before /\ event.replaces = 0)

\* C2: a run whose timeout expires terminates the process, leaves the buffer
\* as it was and shows the timeout status, not the success or the error one.
C2_TimeoutCancels ==
    RunEnded("timeout")
        => /\ buffer = event.before
           /\ event.replaces = 0
           /\ event.stdout = NoneV
           /\ status = <<"isort(timeout)">>
           /\ proc_state[event.pid] = "dead"
           /\ proc = None

C2_Witness ==
    /\ RunEnded("timeout")
    /\ ~event.check
    /\ event.returncode = NoneV
    /\ status = <<"isort(timeout)">>

\* C3: a run with check=True never modifies the buffer, whatever the process
\* does and returns.
C3_CheckKeepsBuffer ==
    (event.op = "run" /\ event.check) => (buffer = event.before /\ event.replaces = 0)

C3_Witness ==
    /\ RunEnded("exit")
    /\ event.check
    /\ event.returncode = Num(0)
    /\ event.stdout # Text(event.before)
    /\ buffer = event.before

\* C4: as claimed: after update_settings each option holds the flat value if
\* the flat source provides it, else the nested value if the nested source
\* provides it, else the global value if the global source provides it.
C4_SourceValueStored ==
    SettingsRead =>
        \A k \in Options :
            IF flat_has(k) THEN current_settings[k] = view_settings[flat_key(k)]
            ELSE IF nested_has(k)
            THEN current_settings[k] = nested_of(view_settings)[k]
            ELSE IF global_has(k)
            THEN current_settings[k] = global_settings[global_key(k)]
            ELSE TRUE

\* a source provides an option when it holds a value for it that is not the
\* reserved marker
flat_gives(k) == flat_has(k) /\ view_settings[flat_key(k)] # UNSET
nested_gives(k) == nested_has(k) /\ nested_of(view_settings)[k] # UNSET
global_gives(k) == global_has(k) /\ global_settings[global_key(k)] # UNSET

\* C4, amended: after update_settings each option holds the placeholder
\* expansion of the flat value if the flat source gives one other than the
\* reserved marker, else that of the nested value, else that of the global one.
C4_Precedence ==
    SettingsRead =>
        \A k \in Options :
            IF flat_gives(k)
            THEN current_settings[k] = expand(view_settings[flat_key(k)])
            ELSE IF nested_gives(k)
            THEN current_settings[k] = expand(nested_of(view_settings)[k])
            ELSE IF global_gives(k)
            THEN current_settings[k] = expand(global_settings[global_key(k)])
            ELSE TRUE

C4_Witness ==
    /\ SettingsRead
    /\ \E k \in Options :
         /\ flat_gives(k) /\ nested_gives(k) /\ global_gives(k)
         /\ view_settings[flat_key(k)] # nested_of(view_settings)[k]
         /\ current_settings[k] = expand(view_settings[flat_key(k)])
    /\ \E k \in Options :
         /\ flat_has(k) /\ ~flat_gives(k) /\ nested_gives(k)
         /\ current_settings[k] = expand(nested_of(view_settings)[k])

\* C5: at most one process the command spawned is alive, and it is the one
\* the command records; a run that spawns finds no earlier process alive.
C5_OneInvocationRecord ==
    /\ Cardinality(alive(proc_state)) <= 1
    /\ alive(proc_state) \subseteq {proc}
    /\ (event.op = "run" /\ event.pid # None) => event.alive_at_spawn = {}

C5_Witness ==
    /\ event.op = "run"
    /\ event.prior # None
    /\ event.prior_alive
    /\ event.pid # None
    /\ proc_state[event.prior] = "dead"

\* C6: a run with kill=True terminates the process in flight, if any, spawns
\* no process and leaves the buffer as it was.
C6_KillTerminates ==
    (event.op = "run" /\ event.kill)
        => /\ buffer = event.before
           /\ event.replaces = 0
           /\ Pids \ unspawned(proc_state) = event.spawned
           /\ event.prior # None => proc_state[event.prior] # "running"

\* C7: a run whose process exits with code 0 leaves the buffer as it was when
\* the output equals it, and, when the output differs and check is off,
\* replaces the whole buffer once, so that it then equals the output.
C7_ZeroExit ==
    (RunEnded("exit") /\ event.returncode = Num(0))
        => /\ event.stdout = Text(event.before)
                => (buffer = event.before /\ event.replaces = 0)
           /\ (event.stdout # Text(event.before) /\ ~event.check)
                => (buffer = event.stdout.text /\ event.replaces = 1)

C7_Witness ==
    /\ RunEnded("exit")
    /\ event.returncode = Num(0)
    /\ ~event.check
    /\ event.before = Unsorted
    /\ event.stdout = Text(Sorted)
    /\ buffer = Sorted

\* the first value the sources give for an option, expanded, or its default
first_match(k) ==
    IF flat_gives(k) THEN expand(view_settings[flat_key(k)])
    ELSE IF nested_gives(k) THEN expand(nested_of(view_settings)[k])
    ELSE IF global_gives(k) THEN expand(global_settings[global_key(k)])
    ELSE default_settings[k]

\* C8: after every load or update_settings each option holds the first match
\* of the sources as they are, or its default when no source gives it.
C8_Rebuilt ==
    SettingsRead => \A k \in Options : current_settings[k] = first_match(k)

\* C9: with no path holding "isort" on sys.path and a root whose package is
\* found, patch_path puts the package of the first such root in front of
\* sys.path; a call made with such a path on sys.path leaves it unchanged.
C9_PrependedOnce ==
    event.op = "patch_path" =>
        IF \E i \in 1 .. Len(event.before) : contains_isort(event.before[i])
        THEN sys_path = event.before
        ELSE found_roots # {} =>
               LET first == CHOOSE i \in found_roots : \A j \in found_roots : i <= j
               IN  sys_path = <<find_package(patch_roots[first])>> \o event.before

\* C10: a log_level that is none of LEVEL_NAMES does not fail the resolution,
\* is logged as an error and sets the logger to WARNING; one of LEVEL_NAMES
\* sets the logger to that level.
C10_LogLevelFallback ==
    SettingsRead =>
        LET level == current_settings["log_level"]
        IN  IF IsStr(level) /\ Len(level.str) = 1 /\ level.str[1] \in LEVEL_NAMES
            THEN event.raised = "none" /\ logger_level = nameToLevel[level.str[1]]
            ELSE /\ event.raised = "none"
                 /\ event.log_errors >= 1
                 /\ logger_level = WARNING

====
